---- MODULE Spec2Model ----
(***************************************************************************)
(* Real-time synchronisation layer of repair-tracker-2 (frontend):         *)
(*   - keyUtils.js          composite ("JIRA-style") key decoding          *)
(*   - useOrdersData        reconciliation of the orders collection        *)
(*   - websocketService.js  connection lifecycle, backoff, registry        *)
(*   - useWebSocket         the hook that connects and subscribes          *)
(*                                                                         *)
(* The specifications share the variables:                                 *)
(*   SpecKey  decodes one key drawn from a bounded set of strings;         *)
(*   SpecEnc  makes a key with createJiraKey, then decodes it;             *)
(*   SpecRec  applies envelopes one after the other to the empty orders    *)
(*            collection;                                                  *)
(*   SpecOnce applies one envelope to any orders collection;               *)
(*   SpecTwice applies it a second time;                                   *)
(*   SpecColl applies envelopes of both channels to both collections;      *)
(*   Spec     runs the WebSocket service with its hooks and transports;    *)
(*   SpecReg  drives the service through its own interface;                *)
(*   SpecClose adds close() to it;                                         *)
(*   SpecSync follows one consumer from the listener to its collections;   *)
(*   SpecBatch accounts for every envelope handed to its orders listener;  *)
(*   SpecResync adds the server of the orders channel and disconnects.     *)
(* A JavaScript string is a sequence of one-character strings.             *)
(***************************************************************************)
EXTENDS Integers, Sequences, FiniteSets, Bags, TLC

VARIABLES
    \* ---- keyUtils.js
    key,                \* the string handed to parseJiraKey / getIdFromKey
    decoded,            \* [done, parsed, id]: what the two functions returned
    enc,                \* [st, type, id]: the arguments given to createJiraKey
    \* ---- useOrdersData (orders effect)
    orders,             \* the orders collection (useState([]))
    statuses,           \* the statuses collection (useState([]))
    prevOrders,         \* history: the collection before the last envelope
    lastEnv,            \* history: the last envelope applied
    lastRec,            \* history: id -> v of the last record supplied
    updOnly,            \* history: only update envelopes were applied so far
    \* ---- websocketService.js (the singleton WebSocketService)
    ws,                 \* the WebSocket this.ws refers to (NoSock: null)
    websocketId,        \* this.websocketId
    connected,          \* this.connected
    subscribers,        \* this.subscribers: channel -> Set of callbacks (a Set
                        \* keeps insertion order: a sequence without repeats)
    reconnectAttempts,  \* this.reconnectAttempts
    \* ---- the browser: WebSocket objects and setTimeout
    orphans,            \* the live WebSockets this.ws no longer refers to
    timers,             \* the number of pending setTimeout callbacks
    \* ---- useWebSocket
    hook,               \* every hook instance: [phase, connected, dirty, subs]
    crashed,            \* an effect threw: React has unmounted the tree
    \* ---- history of the last step
    sentNow,            \* the envelopes the step handed to WebSocket.send
    delayNow,           \* the delay the step handed to setTimeout (0: no call)
    sinceOpen,          \* reconnections scheduled since the last open event
    calledNow,          \* the listeners the step invoked, in order
    threwNow,           \* a send() of the step threw
    frameNow,           \* the kind of frame the step handled ("none": no frame)
    \* ---- one consumer (useOrdersData) followed through its renders
    messages,           \* its useWebSocket messages state: channel -> envelope
    msgsNew,            \* the channels setMessages was called for since its
                        \* last render
    created,            \* history: the names addOrder has sent to the server
    due,                \* history: the orders collection had every envelope
                        \* handed to the main:orders listener been processed
    \* ---- the server, as far as the consumer's orders depend on it
    srv,                \* its orders: id -> the record's value, or NoRec
    wire,               \* the envelopes it has sent that have not arrived yet
    srvSub,             \* it has the open transport subscribed to main:orders
    owed                \* history: how many envelopes the consumer has yet
                        \* to receive to know the server's orders as they are

keyVars == <<key, decoded, enc>>
recVars == <<orders, statuses, prevOrders, lastEnv, lastRec, updOnly>>
svcVars == <<ws, websocketId, connected, subscribers, reconnectAttempts>>
envVars == <<orphans, timers>>
hookVars == <<hook, crashed>>
histVars == <<sentNow, delayNow, sinceOpen, calledNow, threwNow, frameNow>>
netVars == <<svcVars, envVars, hookVars, histVars>>
srvVars == <<srv, wire, srvSub, owed>>
syncVars == <<messages, msgsNew, created, due, srvVars>>
vars == <<keyVars, recVars, netVars, syncVars>>

----------------------------------------------------------------------------
(* Bounds *)
MaxKeyLen == 5          \* longest enumerated key string
MaxId == 3              \* record ids are 1..MaxId
MaxData == 2            \* longest data array of an envelope
MaxHooks == 2           \* useWebSocket instances that ever mount
MaxEncId == 120         \* ids given to createJiraKey are 0..MaxEncId
MaxCollId == 2          \* record ids are 1..MaxCollId where both collections run
MaxCollData == 2        \* longest data array where both collections run

----------------------------------------------------------------------------
(* keyUtils.js *)

\* The characters the enumerated key strings are built from.
KeyChars == {"R", "O", "Z", "-", "3", "x", " "}

Digits == <<"0", "1", "2", "3", "4", "5", "6", "7", "8", "9">>
IsDigit(c) == \E d \in 1..10 : Digits[d] = c
DigitVal(c) == (CHOOSE d \in 1..10 : Digits[d] = c) - 1
\* StrWhiteSpace characters parseInt skips.
WhiteSpace == {" "}

\* getIdFromKey's null.
Null == -1

\* String.prototype.split('-'): the segments between hyphens.
RECURSIVE SplitFrom(_, _, _)
SplitFrom(s, i, cur) ==
    IF i > Len(s) THEN <<cur>>
    ELSE IF s[i] = "-" THEN <<cur>> \o SplitFrom(s, i + 1, <<>>)
    ELSE SplitFrom(s, i + 1, Append(cur, s[i]))
Split(s) == SplitFrom(s, 1, <<>>)

\* parseInt(str, 10): skip leading white space, take an optional sign, then
\* the longest run of decimal digits; NaN when that run is empty. Whatever
\* follows the digits is ignored.
RECURSIVE SkipWhite(_)
SkipWhite(s) ==
    IF s # <<>> /\ Head(s) \in WhiteSpace THEN SkipWhite(Tail(s)) ELSE s
RECURSIVE DigitRun(_, _, _)
DigitRun(s, n, acc) ==
    IF s # <<>> /\ IsDigit(Head(s))
    THEN DigitRun(Tail(s), n + 1, 10 * acc + DigitVal(Head(s)))
    ELSE [count |-> n, val |-> acc]
ParseInt(str) ==
    LET t == SkipWhite(str)
        neg == t # <<>> /\ Head(t) = "-"
        u == IF t # <<>> /\ Head(t) \in {"+", "-"} THEN Tail(t) ELSE t
        r == DigitRun(u, 0, 0)
    IN  IF r.count = 0 THEN [nan |-> TRUE, val |-> 0]
        ELSE [nan |-> FALSE, val |-> IF neg THEN 0 - r.val ELSE r.val]

\* typeMap, an object literal: its own five properties ...
typeMap ==
    (<<"A", "S">> :> "assignee") @@ (<<"S", "T">> :> "status") @@
    (<<"U", "M">> :> "unit_model") @@ (<<"R", "O">> :> "repair_order") @@
    (<<"R", "U">> :> "repair_unit")
\* ... and what it inherits from Object.prototype, which typeMap[prefix]
\* reads as well (all of them truthy values).
ProtoProps ==
    { <<"c", "o", "n", "s", "t", "r", "u", "c", "t", "o", "r">>,
      <<"t", "o", "S", "t", "r", "i", "n", "g">>,
      <<"v", "a", "l", "u", "e", "O", "f">> }
Undefined == "undefined"
TypeMapGet(prefix) ==
    IF prefix \in DOMAIN typeMap THEN typeMap[prefix]
    ELSE IF prefix \in ProtoProps THEN "[inherited]"
    ELSE Undefined

NullParse == [valid |-> FALSE, type |-> Undefined, id |-> Null, prefix |-> <<>>]

\* parseJiraKey(key) for a string key; NullParse is its null.
parseJiraKey(k) ==
    IF k = <<>> THEN NullParse
    ELSE LET parts == Split(k) IN
         IF Len(parts) # 2 THEN NullParse
         ELSE LET prefix == parts[1]
                  id == ParseInt(parts[2])
              IN  IF id.nan THEN NullParse
                  ELSE LET type == TypeMapGet(prefix) IN
                       IF type = Undefined THEN NullParse
                       ELSE [valid |-> TRUE, type |-> type, id |-> id.val,
                             prefix |-> prefix]

getIdFromKey(k) ==
    LET parsed == parseJiraKey(k) IN
    IF parsed.valid THEN parsed.id ELSE Null

\* All strings over KeyChars of length 0..n.
RECURSIVE StringsUpTo(_)
StringsUpTo(n) ==
    IF n = 0 THEN {<<>>}
    ELSE LET shorter == StringsUpTo(n - 1) IN
         shorter \cup {Append(s, c) : s \in {t \in shorter : Len(t) = n - 1},
                                       c \in KeyChars}
\* A few strings outside that alphabet.
ExtraKeys ==
    { <<"S", "T", "-", "3">>, <<"R", "U", "-", "1", "2">>,
      <<"R", "O", "-", "+", "3">>, <<"r", "o", "-", "3">>,
      <<"c", "o", "n", "s", "t", "r", "u", "c", "t", "o", "r", "-", "3">> }
KeyInputs == StringsUpTo(MaxKeyLen) \cup ExtraKeys

NotDecoded == [done |-> FALSE, parsed |-> NullParse, id |-> Null]

\* createJiraKey's prefixMap.
prefixMap ==
    ("assignee" :> <<"A", "S">>) @@ ("status" :> <<"S", "T">>) @@
    ("unit_model" :> <<"U", "M">>) @@ ("repair_order" :> <<"R", "O">>) @@
    ("repair_unit" :> <<"R", "U">>)
EntityTypes == DOMAIN prefixMap

\* `${id}` for a non-negative integer below 10^21: its decimal digits, without
\* leading zeros.
RECURSIVE NumberToString(_)
NumberToString(n) ==
    IF n < 10 THEN <<Digits[n + 1]>>
    ELSE Append(NumberToString(n \div 10), Digits[(n % 10) + 1])

\* createJiraKey(type, id); <<>> stands for its null (parseJiraKey treats null
\* and the empty string alike: !key).
createJiraKey_SwappedPrefix(type, id) ==
    IF type \notin DOMAIN prefixMap THEN <<>>
    ELSE LET prefix == CASE type = "repair_order" -> prefixMap["repair_unit"]
                         [] type = "repair_unit" -> prefixMap["repair_order"]
                         [] OTHER -> prefixMap[type]
         IN  prefix \o <<"-">> \o NumberToString(id)
createJiraKey(type, id) ==
    IF type \notin DOMAIN prefixMap THEN <<>>
    ELSE LET prefix == prefixMap[type] IN
         prefix \o <<"-">> \o NumberToString(id)

\* The arguments createJiraKey is called with: the five entity types and one
\* that is none of them; the ids 0..MaxEncId.
EncTypes == EntityTypes \cup {"customer"}
EncIds == 0..MaxEncId
NoEnc == [st |-> "none", type |-> "none", id |-> 0]

\* One call of createJiraKey(type, id); its result is the key decoded next.
EncodeKey ==
    /\ enc.st = "pending"
    /\ key' = createJiraKey(enc.type, enc.id)
    /\ enc' = [enc EXCEPT !.st = "encoded"]
    /\ UNCHANGED <<decoded, recVars, netVars, syncVars>>

\* One call of parseJiraKey(key) and one of getIdFromKey(key).
DecodeKey ==
    /\ enc.st # "pending"
    /\ ~decoded.done
    /\ decoded' = [done |-> TRUE, parsed |-> parseJiraKey(key),
                   id |-> getIdFromKey(key)]
    /\ UNCHANGED <<key, enc, recVars, netVars, syncVars>>

----------------------------------------------------------------------------
(* useOrdersData: the orders effect's state updaters *)

Ids == 1..MaxId
Vals == {"a", "b"}
Records == [id : Ids, v : Vals]

\* newOrders.findIndex(o => o.id === orderData.id): 0 stands for -1.
FindIndex_SkipsFirst(coll, id) ==
    IF \E i \in 2..Len(coll) : coll[i].id = id
    THEN CHOOSE i \in 2..Len(coll) :
            /\ coll[i].id = id
            /\ \A j \in 2..(i - 1) : coll[j].id # id
    ELSE 0
FindIndex(coll, id) ==
    IF \E i \in 1..Len(coll) : coll[i].id = id
    THEN CHOOSE i \in 1..Len(coll) :
            /\ coll[i].id = id
            /\ \A j \in 1..(i - 1) : coll[j].id # id
    ELSE 0

\* One iteration of ordersMessage.data.forEach.
Upsert_AlwaysPush(coll, orderData) == Append(coll, orderData)
Upsert_IndexZeroNotFound(coll, orderData) ==
    LET index == FindIndex(coll, orderData.id) IN
    IF index >= 2 THEN [coll EXCEPT ![index] = orderData]
    ELSE Append(coll, orderData)
Upsert(coll, orderData) ==
    LET index == FindIndex(coll, orderData.id) IN
    IF index >= 1 THEN [coll EXCEPT ![index] = orderData]
    ELSE Append(coll, orderData)

\* The updater of the 'update' branch: the entries in array order.
RECURSIVE UpsertAll_RemoveThenPush(_, _)
UpsertAll_RemoveThenPush(prev, data) ==
    IF data = <<>> THEN prev
    ELSE UpsertAll_RemoveThenPush(
             Append(SelectSeq(prev, LAMBDA o : o.id # Head(data).id), Head(data)),
             Tail(data))
RECURSIVE UpsertAll(_, _)
UpsertAll(prev, data) ==
    IF data = <<>> THEN prev
    ELSE UpsertAll(Upsert(prev, Head(data)), Tail(data))

\* The updater of the 'delete' branch.
DeleteByKeys_FirstKeyOnly(prev, keys) ==
    LET keysToDelete == IF keys = <<>> THEN {} ELSE {getIdFromKey(keys[1])}
    IN  SelectSeq(prev, LAMBDA o : o.id \notin keysToDelete)
DeleteByKeys(prev, keys) ==
    LET keysToDelete == {getIdFromKey(keys[i]) : i \in 1..Len(keys)}
    IN  SelectSeq(prev, LAMBDA o : o.id \notin keysToDelete)

\* An 'update' envelope reaches the orders effect.
OrdersUpdate_Concat(data) ==
    orders' = orders \o data
OrdersUpdate(data) ==
    orders' = UpsertAll(orders, data)

\* A 'delete' envelope reaches the orders effect.
OrdersDelete_ByPosition(keys) ==
    LET keysToDelete == {getIdFromKey(keys[i]) : i \in 1..Len(keys)}
        kept == {n \in 1..Len(orders) : n \notin keysToDelete}
        Nth(k) == CHOOSE n \in kept : Cardinality({m \in kept : m <= n}) = k
    IN  orders' = [k \in 1..Cardinality(kept) |-> orders[Nth(k)]]
OrdersDelete(keys) == orders' = DeleteByKeys(orders, keys)

\* The keys a delete envelope may carry: for every id a well-formed key and
\* the malformed ones the error taxonomy names.
IdStr(i) == <<Digits[i + 1]>>
KeysFor(i) ==
    { <<"R", "O", "-">> \o IdStr(i),                 \* well-formed
      <<"Z", "Z", "-">> \o IdStr(i),                 \* unknown prefix
      <<"R", "O", "-">> \o IdStr(i) \o <<"x">> }     \* id not purely numeric
DeleteKeys ==
    UNION {KeysFor(i) : i \in Ids}
      \cup { <<"R", "O", "-", "1", "-", "1">>,       \* three segments
             <<"R", "O", "-", "x">> }                \* id not numeric at all

SeqsUpTo(S, n) == UNION {[1..m -> S] : m \in 1..n}
UpdateEnvs == SeqsUpTo(Records, MaxData)
DeleteEnvs == SeqsUpTo(DeleteKeys, MaxData)

\* The collections the orders effect can hold: any arrangement of records
\* with distinct ids (each is reached from [] by one update envelope per
\* record).
Collections ==
    {c \in UNION {[1..m -> Records] : m \in 0..MaxId} :
        \A i, j \in 1..Len(c) : i # j => c[i].id # c[j].id}

NoEnv == [type |-> "none", data |-> <<>>]
NoRec == "none"

\* SpecRec: envelopes applied one after the other to the empty collection;
\* lastRec remembers the last record supplied for each id while only update
\* envelopes have been applied.
LastSupplied(data, i) ==
    data[CHOOSE n \in 1..Len(data) :
            /\ data[n].id = i
            /\ \A m \in (n + 1)..Len(data) : data[m].id # i].v
RecUpdate(data) ==
    /\ OrdersUpdate(data)
    /\ lastRec' = IF updOnly
                  THEN [i \in Ids |->
                          IF \E n \in 1..Len(data) : data[n].id = i
                          THEN LastSupplied(data, i) ELSE lastRec[i]]
                  ELSE lastRec
    /\ UNCHANGED <<statuses, updOnly, prevOrders, lastEnv, keyVars, netVars, syncVars>>
RecDelete(keys) ==
    /\ OrdersDelete(keys)
    /\ updOnly' = FALSE
    /\ lastRec' = [i \in Ids |-> NoRec]
    /\ UNCHANGED <<statuses, prevOrders, lastEnv, keyVars, netVars, syncVars>>

\* SpecOnce: one envelope applied to a collection drawn from Collections;
\* prevOrders and lastEnv remember the collection before and the envelope.
OnceUpdate ==
    /\ lastEnv = NoEnv
    /\ \E data \in UpdateEnvs :
        /\ OrdersUpdate(data)
        /\ lastEnv' = [type |-> "update", data |-> data]
    /\ prevOrders' = orders
    /\ UNCHANGED <<statuses, lastRec, updOnly, keyVars, netVars, syncVars>>
OnceDelete ==
    /\ lastEnv = NoEnv
    /\ \E keys \in DeleteEnvs :
        /\ OrdersDelete(keys)
        /\ lastEnv' = [type |-> "delete", data |-> keys]
    /\ prevOrders' = orders
    /\ UNCHANGED <<statuses, lastRec, updOnly, keyVars, netVars, syncVars>>

\* The orders effect runs again on the envelope it has just processed (a
\* render after messages changed for another channel); lastEnv.times tells
\* that it did.
OnceRepeat ==
    /\ lastEnv # NoEnv
    /\ DOMAIN lastEnv = {"type", "data"}
    /\ CASE lastEnv.type = "update" -> OrdersUpdate(lastEnv.data)
         [] lastEnv.type = "delete" -> OrdersDelete(lastEnv.data)
    /\ prevOrders' = orders
    /\ lastEnv' = [type |-> lastEnv.type, data |-> lastEnv.data, times |-> 2]
    /\ UNCHANGED <<statuses, lastRec, updOnly, keyVars, netVars, syncVars>>

\* An 'update' / a 'delete' envelope reaches the statuses effect: the same
\* two updaters, on the statuses collection.
StatusesUpdate(data) == statuses' = UpsertAll(statuses, data)
StatusesDelete(keys) == statuses' = DeleteByKeys(statuses, keys)

\* SpecColl: envelopes of the two channels applied in any interleaving, each
\* to its collection, from two empty collections.
CollIds == 1..MaxCollId
CollRecords == [id : CollIds, v : Vals]
CollKeys ==
    { <<"R", "O", "-">> \o IdStr(i) : i \in CollIds }
      \cup { <<"S", "T", "-", "1">>, <<"R", "O", "-", "x">> }
CollUpdateEnvs == SeqsUpTo(CollRecords, MaxCollData)
CollDeleteEnvs == SeqsUpTo(CollKeys, MaxCollData)
CollOrdersUpdate(data) ==
    /\ OrdersUpdate(data)
    /\ UNCHANGED <<statuses, prevOrders, lastEnv, lastRec, updOnly,
                   keyVars, netVars, syncVars>>
CollOrdersDelete(keys) ==
    /\ OrdersDelete(keys)
    /\ UNCHANGED <<statuses, prevOrders, lastEnv, lastRec, updOnly,
                   keyVars, netVars, syncVars>>
CollStatusesUpdate(data) ==
    /\ StatusesUpdate(data)
    /\ UNCHANGED <<orders, prevOrders, lastEnv, lastRec, updOnly,
                   keyVars, netVars, syncVars>>
CollStatusesDelete(keys) ==
    /\ StatusesDelete(keys)
    /\ UNCHANGED <<orders, prevOrders, lastEnv, lastRec, updOnly,
                   keyVars, netVars, syncVars>>

----------------------------------------------------------------------------
(* websocketService.js, the browser objects it drives, and useWebSocket *)

maxReconnectAttempts == 10
reconnectDelay == 1000

Channels == {"main:orders", "main:status"}
ErrorChannel == "__messages__"
WsIds == {"w1"}
NoId == "null"

Hooks == 1..MaxHooks
\* The channels useOrdersData gives useWebSocket; every hook instance is
\* one of useOrdersData.
HookChannels == <<"main:orders", "main:status">>

\* A WebSocket object is [st, by, h]:
\*   st: "connecting" | "open" | "failing" | "closing" | "closed"
\*       ("closing": close() was called on it while open, its close event
\*       is to come)
\*       ("failing": the error event was dispatched, the close event of the
\*        same task is next; readyState is already CLOSED)
\*   by, h: who called connect() and awaits its promise ("timer", or "hook"
\*       and the hook, or "app": other application code that does nothing
\*       with the promise), "none" once the promise is settled.
\* ws is the object this.ws refers to. The objects of earlier connect()
\* calls live on with their handlers until they close: they are alike but
\* for [st, by, h], so orphans is a bag of them.
NoSock == [st |-> "none", by |-> "none", h |-> 0]
Settled(st) == [st |-> st, by |-> "none", h |-> 0]
Live == {"connecting", "open", "failing"}

\* A transport an event is dispatched to: Cur for this.ws, or an orphan.
Cur == [st |-> "cur", by |-> "none", h |-> 0]
Transports == {Cur} \cup BagToSet(orphans)
Sock(t) == IF t = Cur THEN ws ELSE t
\* Transport t changes into `new`.
Becomes(t, new) ==
    IF t = Cur
    THEN ws' = new /\ orphans' = orphans
    ELSE ws' = ws /\ orphans' = (orphans (-) SetToBag({t})) (+) SetToBag({new})
\* Transport t is closed: nothing but this.ws refers to it any more.
Closes(t) ==
    IF t = Cur
    THEN ws' = Settled("closed") /\ orphans' = orphans
    ELSE ws' = ws /\ orphans' = orphans (-) SetToBag({t})

\* The error and the close event of a failing transport are dispatched in
\* one task: nothing else runs in between.
Quiet == \A t \in Transports : Sock(t).st # "failing"

NewHook == [phase |-> "new", connected |-> FALSE, dirty |-> FALSE, subs |-> {}]
GoneHook == [phase |-> "gone", connected |-> FALSE, dirty |-> FALSE, subs |-> {}]

RECURSIVE Pow2(_)
Pow2(n) == IF n <= 0 THEN 1 ELSE 2 * Pow2(n - 1)

\* connect(): a new WebSocket becomes this.ws, with the four handlers; the
\* one this.ws referred to is neither closed nor looked at.
connect(by, h) ==
    /\ ws' = [st |-> "connecting", by |-> by, h |-> h]
    /\ orphans' = IF ws.st \in Live THEN orphans (+) SetToBag({ws}) ELSE orphans

\* attemptReconnect(): the ceiling, the counter, the backoff delay, setTimeout.
attemptReconnect_NoCeiling ==
    /\ reconnectAttempts' = reconnectAttempts + 1
    /\ timers' = timers + 1
    /\ delayNow' = reconnectDelay * Pow2(reconnectAttempts' - 1)
BackoffDelay_OffByOne(attempts) == reconnectDelay * Pow2(attempts)
BackoffDelay(attempts) == reconnectDelay * Pow2(attempts - 1)
attemptReconnect ==
    IF reconnectAttempts >= maxReconnectAttempts
    THEN /\ UNCHANGED <<reconnectAttempts, timers>>
         /\ delayNow' = 0
    ELSE /\ reconnectAttempts' = reconnectAttempts + 1
         /\ timers' = timers + 1
         /\ delayNow' = BackoffDelay(reconnectAttempts')

\* send(message) with this.ws referring to w and this.connected = conn,
\* appending to the envelopes sent so far. WebSocket.send throws
\* InvalidStateError while CONNECTING and discards the data while CLOSING or
\* CLOSED.
send(message, w, conn, sent) ==
    IF w # NoSock /\ conn
    THEN CASE w.st = "open" -> [sent |-> Append(sent, message), threw |-> FALSE]
           [] w.st = "connecting" -> [sent |-> sent, threw |-> TRUE]
           [] OTHER -> [sent |-> sent, threw |-> FALSE]
    ELSE [sent |-> sent, threw |-> FALSE]

\* subscribeToChannels(channels)
subscribeToChannels(channels, w, conn, sent) ==
    send([type |-> "subscribe", channels |-> channels], w, conn, sent)

\* sendUpdate(channel, data)
sendUpdate(channel, data, w, conn, sent) ==
    send([type |-> "update", channel |-> channel, data |-> data], w, conn, sent)

\* Set.prototype.has / add / delete on a Set kept as its insertion sequence.
SetHas(set, x) == \E n \in 1..Len(set) : set[n] = x
SetAdd_AllowsRepeats(set, x) == Append(set, x)
SetAdd(set, x) ==
    IF SetHas(set, x) THEN set ELSE Append(set, x)
SetDelete(set, x) == SelectSeq(set, LAMBDA y : y # x)

\* subscribe(channel, callback) on r = [subs, sent, threw]; nothing runs
\* once an earlier call has thrown.
subscribe(r, channel, callback) ==
    IF r.threw THEN r
    ELSE LET has == channel \in DOMAIN r.subs
             withSet == IF has THEN r.subs ELSE r.subs @@ (channel :> <<>>)
             s == IF has THEN [sent |-> r.sent, threw |-> FALSE]
                  ELSE subscribeToChannels({channel}, ws, connected, r.sent)
         IN  IF s.threw
             THEN [subs |-> withSet, sent |-> s.sent, threw |-> TRUE]
             ELSE [subs |-> [withSet EXCEPT ![channel] = SetAdd(@, callback)],
                   sent |-> s.sent, threw |-> FALSE]

\* unsubscribe(channel, callback)
unsubscribe_DropsChannel(subs, channel, callback) ==
    [c \in DOMAIN subs \ {channel} |-> subs[c]]
unsubscribe(subs, channel, callback) ==
    IF channel \in DOMAIN subs
    THEN LET callbacks == SetDelete(subs[channel], callback) IN
         IF callbacks = <<>>
         THEN [c \in DOMAIN subs \ {channel} |-> subs[c]]
         ELSE [subs EXCEPT ![channel] = callbacks]
    ELSE subs

\* The listener a hook registers for a channel.
Callback(h, channel) == <<h, channel>>

\* useWebSocket's subscribe effect: channelArray.forEach(subscribe).
RECURSIVE SubscribeEach(_, _, _)
SubscribeEach(h, chans, r) ==
    IF chans = <<>> THEN r
    ELSE SubscribeEach(h, Tail(chans),
                       subscribe(r, Head(chans), Callback(h, Head(chans))))
\* ... and its cleanup: unsubscribers.forEach(unsub => unsub()).
RECURSIVE UnsubscribeEach(_, _, _)
UnsubscribeEach(h, chans, subs) ==
    IF chans = {} THEN subs
    ELSE LET c == CHOOSE x \in chans : TRUE IN
         UnsubscribeEach(h, chans \ {c}, unsubscribe(subs, c, Callback(h, c)))
\* The cleanups of every mounted hook but h.
RECURSIVE CleanupOthers(_, _, _)
CleanupOthers(h, hs, subs) ==
    IF hs = {} THEN subs
    ELSE LET g == CHOOSE x \in hs : TRUE IN
         CleanupOthers(h, hs \ {g},
                       IF g = h THEN subs
                       ELSE UnsubscribeEach(g, hook[g].subs, subs))

\* setConnected(value) of hook h: a state change of a mounted component
\* schedules a render.
setConnected(hk, h, value) ==
    IF hk[h].phase = "mounted" /\ hk[h].connected # value
    THEN [hk EXCEPT ![h].connected = value, ![h].dirty = TRUE]
    ELSE hk

\* A step that handles no frame and invokes no listener; a step without a
\* throwing send().
NoDispatch == calledNow' = <<>> /\ frameNow' = "none"
NoThrow == threwNow' = FALSE

\* useWebSocket mounts: the connect effect calls websocketService.connect().
\* The instances are alike, so they mount in the order of their numbers.
HookMount(h) ==
    /\ Quiet
    /\ ~crashed
    /\ hook[h].phase = "new"
    /\ \A g \in Hooks : g < h => hook[g].phase # "new"
    /\ hook' = [hook EXCEPT ![h].phase = "mounted"]
    /\ connect("hook", h)
    /\ sentNow' = <<>>
    /\ delayNow' = 0
    /\ NoDispatch
    /\ NoThrow
    /\ UNCHANGED <<websocketId, connected, subscribers, reconnectAttempts,
                   timers, crashed, sinceOpen, keyVars, recVars, syncVars>>

\* A render of a mounted hook after a state change: the subscribe effect's
\* cleanup, then the effect again (its dependency `channels` is a new array
\* on every render). An exception thrown by the effect unmounts the tree.
RenderSubscribe(h) ==
    /\ Quiet
    /\ hook[h].phase = "mounted"
    /\ hook[h].dirty
    /\ LET cleaned == UnsubscribeEach(h, hook[h].subs, subscribers)
           start == [subs |-> cleaned, sent |-> <<>>, threw |-> FALSE]
           r == IF hook[h].connected
                THEN SubscribeEach(h, HookChannels, start)
                ELSE start
       IN  /\ sentNow' = r.sent
           /\ threwNow' = r.threw
           /\ delayNow' = 0
           /\ NoDispatch
           /\ IF r.threw
              THEN /\ crashed' = TRUE
                   /\ subscribers' =
                        CleanupOthers(h, {g \in Hooks : hook[g].phase = "mounted"},
                                      r.subs)
                   /\ hook' = [g \in Hooks |->
                                 IF hook[g].phase = "mounted" THEN GoneHook
                                 ELSE hook[g]]
              ELSE /\ crashed' = crashed
                   /\ subscribers' = r.subs
                   /\ hook' = [hook EXCEPT
                                 ![h].dirty = FALSE,
                                 ![h].subs = IF hook[h].connected
                                             THEN {HookChannels[i] :
                                                     i \in 1..Len(HookChannels)}
                                             ELSE {}]
    /\ UNCHANGED <<ws, websocketId, connected, reconnectAttempts, envVars,
                   sinceOpen, keyVars>>
\* ... where the consumer's collections are not followed.
HookRender(h) == RenderSubscribe(h) /\ UNCHANGED <<recVars, syncVars>>

\* useWebSocket unmounts: the subscribe effect's cleanup.
HookUnmount(h) ==
    /\ Quiet
    /\ hook[h].phase = "mounted"
    /\ subscribers' = UnsubscribeEach(h, hook[h].subs, subscribers)
    /\ hook' = [hook EXCEPT ![h] = GoneHook]
    /\ sentNow' = <<>>
    /\ delayNow' = 0
    /\ NoDispatch
    /\ NoThrow
    /\ UNCHANGED <<ws, websocketId, connected, reconnectAttempts, envVars,
                   crashed, sinceOpen, keyVars, recVars, syncVars>>

\* addOrder(name): sendUpdate('main:orders', [{ name }]) from an event handler.
Names == Vals
addOrder(h, name) ==
    /\ Quiet
    /\ hook[h].phase = "mounted"
    /\ LET r == sendUpdate("main:orders", <<[name |-> name]>>, ws, connected, <<>>)
       IN  sentNow' = r.sent /\ threwNow' = r.threw
    /\ delayNow' = 0
    /\ NoDispatch
    /\ UNCHANGED <<svcVars, envVars, hookVars, sinceOpen, keyVars>>
\* ... where the consumer's collections are not followed.
AddOrder(h) ==
    \E name \in Names : addOrder(h, name) /\ UNCHANGED <<recVars, syncVars>>

\* ws.onopen of transport t, then the reaction of the connect() promise:
\* attemptReconnect's .then (re-subscribe; what it throws its .catch logs)
\* or the hook's (setConnected(true)).
onopen_KeepsAttempts(t) ==
    /\ Quiet
    /\ Sock(t).st = "connecting"
    /\ connected' = TRUE
    /\ reconnectAttempts' = reconnectAttempts
    /\ Becomes(t, Settled("open"))
    /\ IF Sock(t).by = "timer"
       THEN /\ LET channels == DOMAIN subscribers
                   r == IF channels # {}
                        THEN subscribeToChannels(channels, ws', TRUE, <<>>)
                        ELSE [sent |-> <<>>, threw |-> FALSE]
               IN  sentNow' = r.sent /\ threwNow' = r.threw
            /\ hook' = hook
       ELSE /\ sentNow' = <<>>
            /\ NoThrow
            /\ hook' = IF Sock(t).by = "hook"
                       THEN setConnected(hook, Sock(t).h, TRUE)
                       ELSE hook
    /\ delayNow' = 0
    /\ NoDispatch
    /\ sinceOpen' = 0
    /\ UNCHANGED <<websocketId, subscribers, timers, crashed, keyVars>>
onopen(t) ==
    /\ Quiet
    /\ Sock(t).st = "connecting"
    /\ connected' = TRUE
    /\ reconnectAttempts' = 0
    /\ Becomes(t, Settled("open"))
    /\ IF Sock(t).by = "timer"
       THEN /\ LET channels == DOMAIN subscribers
                   r == IF channels # {}
                        THEN subscribeToChannels(channels, ws', TRUE, <<>>)
                        ELSE [sent |-> <<>>, threw |-> FALSE]
               IN  sentNow' = r.sent /\ threwNow' = r.threw
            /\ hook' = hook
       ELSE /\ sentNow' = <<>>
            /\ NoThrow
            /\ hook' = IF Sock(t).by = "hook"
                       THEN setConnected(hook, Sock(t).h, TRUE)
                       ELSE hook
    /\ delayNow' = 0
    /\ NoDispatch
    /\ sinceOpen' = 0
    /\ UNCHANGED <<websocketId, subscribers, timers, crashed, keyVars>>
\* ... where the consumer's collections are not followed.
OnOpen(t) == onopen(t) /\ UNCHANGED <<recVars, syncVars>>

\* ws.onerror of transport t: reject(error), then the promise's reaction if
\* it was still pending: attemptReconnect's .catch (a log line) or the
\* hook's (setConnected(false)). The close event follows.
OnError(t) ==
    /\ Quiet
    /\ Sock(t).st \in {"connecting", "open"}
    /\ Becomes(t, Settled("failing"))
    /\ hook' = IF Sock(t).st = "connecting" /\ Sock(t).by = "hook"
               THEN setConnected(hook, Sock(t).h, FALSE)
               ELSE hook
    /\ sentNow' = <<>>
    /\ delayNow' = 0
    /\ NoDispatch
    /\ NoThrow
    /\ UNCHANGED <<websocketId, connected, subscribers, reconnectAttempts,
                   timers, crashed, sinceOpen, keyVars, recVars, syncVars>>

\* ws.onclose of transport t: after its error event, or a close without
\* error of an open transport.
onclose(t) ==
    /\ \/ Sock(t).st = "failing"
       \/ Quiet /\ Sock(t).st \in {"open", "closing"}
    /\ connected' = FALSE
    /\ websocketId' = NoId
    /\ attemptReconnect
    /\ Closes(t)
    /\ sentNow' = <<>>
    /\ NoDispatch
    /\ NoThrow
    /\ sinceOpen' = IF timers' > timers THEN sinceOpen + 1 ELSE sinceOpen
    /\ UNCHANGED <<subscribers, hookVars, keyVars>>
\* ... where the consumer's collections are not followed.
OnClose_KeepsId(t) ==
    /\ \/ Sock(t).st = "failing"
       \/ Quiet /\ Sock(t).st \in {"open", "closing"}
    /\ connected' = FALSE
    /\ attemptReconnect
    /\ Closes(t)
    /\ sentNow' = <<>>
    /\ NoDispatch
    /\ NoThrow
    /\ sinceOpen' = IF timers' > timers THEN sinceOpen + 1 ELSE sinceOpen
    /\ UNCHANGED <<websocketId, subscribers, hookVars, keyVars, recVars, syncVars>>
OnClose(t) == onclose(t) /\ UNCHANGED <<recVars, syncVars>>

\* A backoff timer fires: its callback calls connect(). The pending
\* callbacks are all alike, so only their number is kept.
TimerFires ==
    /\ Quiet
    /\ timers > 0
    /\ timers' = timers - 1
    /\ connect("timer", 0)
    /\ sentNow' = <<>>
    /\ delayNow' = 0
    /\ NoDispatch
    /\ NoThrow
    /\ UNCHANGED <<websocketId, connected, subscribers, reconnectAttempts,
                   hookVars, sinceOpen, keyVars, recVars, syncVars>>

\* The frames the server may send on an open transport.
Frames ==
    {[kind |-> "malformed"]}
      \cup {[kind |-> "connected", websocket_id |-> w] : w \in WsIds}
      \cup {[kind |-> "channel", channel |-> c] : c \in Channels \cup {ErrorChannel}}

\* handleMessage's three outcomes for a frame m. JSON.parse throws on a
\* malformed frame and the catch logs it; a 'connected' frame sets the session
\* identifier and returns; a frame with a channel is handed to the callbacks
\* of that channel, in the Set's order.
SessionIdAfter_MalformedClears(id, m) ==
    CASE m.kind = "connected" -> m.websocket_id
      [] m.kind = "malformed" -> NoId
      [] OTHER -> id
SessionIdAfter(id, m) ==
    IF m.kind = "connected" THEN m.websocket_id ELSE id
Dispatch_FirstOnly(subs, m) ==
    IF m.kind = "channel" /\ m.channel \in DOMAIN subs
    THEN SubSeq(subs[m.channel], 1, 1)
    ELSE <<>>
Dispatch(subs, m) ==
    IF m.kind = "channel" /\ m.channel \in DOMAIN subs
    THEN subs[m.channel]
    ELSE <<>>

\* handleMessage(data), called by ws.onmessage of transport t.
handleMessage(t, m) ==
    /\ Quiet
    /\ Sock(t).st = "open"
    /\ websocketId' = SessionIdAfter(websocketId, m)
    /\ calledNow' = Dispatch(subscribers, m)
    /\ hook' = [h \in Hooks |->
                 IF /\ \E c \in Channels : SetHas(calledNow', Callback(h, c))
                    /\ hook[h].phase = "mounted"
                 THEN [hook[h] EXCEPT !.dirty = TRUE]
                 ELSE hook[h]]
    /\ frameNow' = m.kind
    /\ sentNow' = <<>>
    /\ delayNow' = 0
    /\ NoThrow
    /\ UNCHANGED <<ws, connected, subscribers, reconnectAttempts, envVars,
                   crashed, sinceOpen, keyVars, recVars, syncVars>>

\* Application code other than useWebSocket driving the service: it calls
\* connect() once, and subscribe / unsubscribe with two callbacks of its own.
Listeners == {<<0, "f">>, <<0, "g">>}
AppConnect ==
    /\ ws = NoSock
    /\ connect("app", 0)
    /\ sentNow' = <<>>
    /\ delayNow' = 0
    /\ NoDispatch
    /\ NoThrow
    /\ UNCHANGED <<websocketId, connected, subscribers, reconnectAttempts,
                   timers, hookVars, sinceOpen, keyVars, recVars, syncVars>>
\* close(), called while this.ws is open or has closed: ws.close() starts
\* the closing handshake of an open transport, whose close event comes
\* later, and does nothing to a closed one. It is called while fewer than
\* MaxClosing other transports or reconnections are pending.
MaxClosing == 1
AppClose ==
    /\ Quiet
    /\ ws.st \in {"open", "closed"}
    /\ BagCardinality(orphans) + timers < MaxClosing
    /\ orphans' = IF ws.st = "open"
                  THEN orphans (+) SetToBag({Settled("closing")})
                  ELSE orphans
    /\ ws' = NoSock
    /\ connected' = FALSE
    /\ websocketId' = NoId
    /\ subscribers' = <<>>
    /\ sentNow' = <<>>
    /\ delayNow' = 0
    /\ NoDispatch
    /\ NoThrow
    /\ UNCHANGED <<reconnectAttempts, timers, hookVars, sinceOpen, keyVars,
                   recVars, syncVars>>
Subscribe(channel, callback) ==
    /\ Quiet
    /\ LET r == subscribe([subs |-> subscribers, sent |-> <<>>, threw |-> FALSE],
                          channel, callback)
       IN  /\ subscribers' = r.subs
           /\ sentNow' = r.sent
           /\ threwNow' = r.threw
    /\ delayNow' = 0
    /\ NoDispatch
    /\ UNCHANGED <<ws, websocketId, connected, reconnectAttempts, envVars,
                   hookVars, sinceOpen, keyVars, recVars, syncVars>>
Unsubscribe(channel, callback) ==
    /\ Quiet
    /\ subscribers' = unsubscribe(subscribers, channel, callback)
    /\ sentNow' = <<>>
    /\ delayNow' = 0
    /\ NoDispatch
    /\ NoThrow
    /\ UNCHANGED <<ws, websocketId, connected, reconnectAttempts, envVars,
                   hookVars, sinceOpen, keyVars, recVars, syncVars>>

\* One consumer (hook 1, a useOrdersData) followed from the listener to its
\* collections. The envelopes the server sends it: one record or one key each
\* on main:orders, two fixed ones on main:status.
SyncEnvs(channel) ==
    IF channel = "main:orders"
    THEN {[type |-> "update", data |-> <<r>>] : r \in CollRecords}
           \cup {[type |-> "delete", data |-> <<k>>] : k \in CollKeys}
    ELSE {[type |-> "update", data |-> <<[id |-> 1, v |-> "a"]>>],
          [type |-> "delete", data |-> <<<<"S", "T", "-", "1">>>>],
          [type |-> "delete", data |-> <<<<"R", "O", "-", "2">>>>]}

\* A frame with an envelope for `channel` arrives: handleMessage hands it to
\* the channel's callbacks; the consumer's is setMessages(prev => ({...prev,
\* [channel]: message})), which schedules a render.
Receive(channel, env) ==
    /\ Quiet
    /\ ws.st = "open"
    /\ calledNow' = Dispatch(subscribers, [kind |-> "channel", channel |-> channel])
    /\ frameNow' = "channel"
    /\ IF SetHas(calledNow', Callback(1, channel)) /\ hook[1].phase = "mounted"
       THEN /\ messages' = [messages EXCEPT ![channel] = env]
            /\ msgsNew' = msgsNew \cup {channel}
            /\ hook' = [hook EXCEPT ![1].dirty = TRUE]
       ELSE UNCHANGED <<messages, msgsNew, hook>>
    /\ sentNow' = <<>>
    /\ delayNow' = 0
    /\ NoThrow
    /\ UNCHANGED <<svcVars, envVars, crashed, sinceOpen, created, keyVars, recVars>>
\* ... with nothing but the envelope known of the server.
SyncReceive(channel, env) == Receive(channel, env) /\ UNCHANGED <<due, srvVars>>

\* The consumer renders: useWebSocket's subscribe effect, then, if messages
\* changed, the orders effect and the statuses effect, each on the latest
\* envelope of its channel.
Render ==
    /\ RenderSubscribe(1)
    /\ msgsNew' = {}
    /\ IF msgsNew # {} /\ ~crashed'
       THEN /\ LET ordersMessage == messages["main:orders"] IN
               CASE ordersMessage.type = "update" -> OrdersUpdate(ordersMessage.data)
                 [] ordersMessage.type = "delete" -> OrdersDelete(ordersMessage.data)
                 [] OTHER -> orders' = orders
            /\ LET statusesMessage == messages["main:status"] IN
               CASE statusesMessage.type = "update" -> StatusesUpdate(statusesMessage.data)
                 [] statusesMessage.type = "delete" -> StatusesDelete(statusesMessage.data)
                 [] OTHER -> statuses' = statuses
       ELSE UNCHANGED <<orders, statuses>>
    /\ UNCHANGED <<messages, created, prevOrders, lastEnv, lastRec, updOnly>>
SyncRender == Render /\ UNCHANGED <<due, srvVars>>

\* The consumer's addOrder(name).
SyncAddOrder(name) ==
    /\ addOrder(1, name)
    /\ created' = IF sentNow' # <<>> THEN created \cup {name} ELSE created
    /\ UNCHANGED <<recVars, messages, msgsNew, due, srvVars>>

----------------------------------------------------------------------------
(* Specifications *)

KeyIdle == key = <<>> /\ decoded = NotDecoded /\ enc = NoEnc
\* The service after its constructor, no hook mounted yet.
NetInit ==
    /\ ws = NoSock
    /\ websocketId = NoId
    /\ connected = FALSE
    /\ subscribers = <<>>
    /\ reconnectAttempts = 0
    /\ orphans = EmptyBag
    /\ timers = 0
    /\ hook = [h \in Hooks |-> NewHook]
    /\ crashed = FALSE
    /\ sentNow = <<>>
    /\ delayNow = 0
    /\ sinceOpen = 0
    /\ calledNow = <<>>
    /\ threwNow = FALSE
    /\ frameNow = "none"
RecHistIdle ==
    /\ prevOrders = <<>>
    /\ lastEnv = NoEnv
    /\ lastRec = [i \in Ids |-> NoRec]
    /\ updOnly = TRUE
RecIdle == orders = <<>> /\ statuses = <<>> /\ RecHistIdle
NoMessages == [c \in Channels |-> NoEnv]
SrvIdle ==
    /\ srv = [i \in CollIds |-> NoRec]
    /\ wire = <<>>
    /\ srvSub = FALSE
    /\ owed = 0
SyncIdle ==
    /\ messages = NoMessages /\ msgsNew = {} /\ created = {} /\ due = <<>>
    /\ SrvIdle

InitKey ==
    /\ key \in KeyInputs
    /\ decoded = NotDecoded
    /\ enc = NoEnc
    /\ RecIdle
    /\ NetInit
    /\ SyncIdle
NextKey == DecodeKey
SpecKey == InitKey /\ [][NextKey]_vars

\* SpecEnc: a key is made by createJiraKey, then decoded.
InitEnc ==
    /\ key = <<>>
    /\ decoded = NotDecoded
    /\ enc \in [st : {"pending"}, type : EncTypes, id : EncIds]
    /\ RecIdle
    /\ NetInit
    /\ SyncIdle
NextEnc == EncodeKey \/ DecodeKey
SpecEnc == InitEnc /\ [][NextEnc]_vars

InitRec == KeyIdle /\ RecIdle /\ NetInit /\ SyncIdle
NextRec ==
    \/ \E data \in UpdateEnvs : RecUpdate(data)
    \/ \E keys \in DeleteEnvs : RecDelete(keys)
SpecRec == InitRec /\ [][NextRec]_vars

InitOnce ==
    /\ KeyIdle
    /\ orders \in Collections
    /\ statuses = <<>>
    /\ RecHistIdle
    /\ NetInit
    /\ SyncIdle
NextOnce == OnceUpdate \/ OnceDelete
SpecOnce == InitOnce /\ [][NextOnce]_vars

\* SpecTwice: one envelope applied to any orders collection, then again.
NextTwice == OnceUpdate \/ OnceDelete \/ OnceRepeat
SpecTwice == InitOnce /\ [][NextTwice]_vars

InitColl == KeyIdle /\ RecIdle /\ NetInit /\ SyncIdle
NextColl ==
    \/ \E data \in CollUpdateEnvs : CollOrdersUpdate(data)
    \/ \E keys \in CollDeleteEnvs : CollOrdersDelete(keys)
    \/ \E data \in CollUpdateEnvs : CollStatusesUpdate(data)
    \/ \E keys \in CollDeleteEnvs : CollStatusesDelete(keys)
SpecColl == InitColl /\ [][NextColl]_vars

Init == KeyIdle /\ RecIdle /\ NetInit /\ SyncIdle
Next ==
    \/ \E h \in Hooks : HookMount(h)
    \/ \E h \in Hooks : HookRender(h)
    \/ \E h \in Hooks : HookUnmount(h)
    \/ \E h \in Hooks : AddOrder(h)
    \/ \E t \in Transports : OnOpen(t)
    \/ \E t \in Transports : OnError(t)
    \/ \E t \in Transports : OnClose(t)
    \/ TimerFires
    \/ \E t \in Transports, m \in Frames : handleMessage(t, m)
Spec == Init /\ [][Next]_vars

\* The consumer is mounted on an open connection and has subscribed.
Subscribed ==
    /\ ws = Settled("open")
    /\ websocketId \in WsIds
    /\ connected = TRUE
    /\ subscribers = [c \in Channels |-> <<Callback(1, c)>>]
    /\ reconnectAttempts = 0
    /\ orphans = EmptyBag
    /\ timers = 0
    /\ hook = [h \in Hooks |->
                 IF h = 1
                 THEN [phase |-> "mounted", connected |-> TRUE, dirty |-> FALSE,
                       subs |-> Channels]
                 ELSE NewHook]
    /\ crashed = FALSE
    /\ sentNow = <<>>
    /\ delayNow = 0
    /\ sinceOpen = 0
    /\ calledNow = <<>>
    /\ threwNow = FALSE
    /\ frameNow = "none"
\* SpecSync: consumer 1 is mounted, connected and subscribed on an open
\* transport; the server sends envelopes, the consumer renders and adds orders.
InitSync ==
    /\ KeyIdle
    /\ RecIdle
    /\ SyncIdle
    /\ Subscribed
NextSync ==
    \/ \E c \in Channels : \E env \in SyncEnvs(c) : SyncReceive(c, env)
    \/ SyncRender
    \/ \E name \in Names : SyncAddOrder(name)
SpecSync == InitSync /\ [][NextSync]_vars

\* SpecBatch: SpecSync without addOrder, keeping account in `due` of the
\* envelopes handed to the main:orders listener.
ApplyEnv(coll, env) ==
    CASE env.type = "update" -> UpsertAll(coll, env.data)
      [] env.type = "delete" -> DeleteByKeys(coll, env.data)
      [] OTHER -> coll
BatchReceive(channel, env) ==
    /\ Receive(channel, env)
    /\ due' = IF channel = "main:orders" /\ SetHas(calledNow', Callback(1, channel))
              THEN ApplyEnv(due, env)
              ELSE due
    /\ UNCHANGED srvVars
NextBatch ==
    \/ \E c \in Channels : \E env \in SyncEnvs(c) : BatchReceive(c, env)
    \/ SyncRender
SpecBatch == InitSync /\ [][NextBatch]_vars

\* SpecResync: the consumer of SpecSync, the server of its orders channel
\* and a connection that closes and is opened again by the backoff timer.
\* The server keeps the orders, sends each change to the transport that has
\* subscribed, forgets a transport that closes, and answers a subscribe
\* request for main:orders with the current records as one update envelope.
\* An envelope arrives only after the one before it has been processed.
MaxWire == 2
RECURSIVE Snapshot(_, _)
Snapshot(s, i) ==
    IF i > MaxCollId THEN <<>>
    ELSE (IF s[i] = NoRec THEN <<>> ELSE <<[id |-> i, v |-> s[i]]>>)
           \o Snapshot(s, i + 1)
SrvEnvelope(s) == [type |-> "update", data |-> Snapshot(s, 1)]
SrvRecords(s) == {[id |-> i, v |-> s[i]] : i \in {j \in CollIds : s[j] # NoRec}}
Asks(sent) ==
    \E n \in 1..Len(sent) :
        sent[n].type = "subscribe" /\ "main:orders" \in sent[n].channels
\* The server reads what the client sent in this step.
SrvHears(sent) ==
    IF Asks(sent)
    THEN /\ Len(wire) < MaxWire
         /\ srvSub' = TRUE
         /\ wire' = Append(wire, SrvEnvelope(srv))
    ELSE UNCHANGED <<wire, srvSub>>
SrvSilent == sentNow' = <<>> /\ delayNow' = 0 /\ NoDispatch /\ NoThrow
\* Another client creates or replaces a record, or deletes one.
SrvPut(r) ==
    /\ Len(wire) < MaxWire
    /\ srv' = [srv EXCEPT ![r.id] = r.v]
    /\ wire' = IF srvSub
               THEN Append(wire, [type |-> "update", data |-> <<r>>])
               ELSE wire
    /\ owed' = IF srvSub THEN Len(wire') ELSE owed
    /\ SrvSilent
    /\ UNCHANGED <<srvSub, messages, msgsNew, created, due, svcVars, envVars,
                   hookVars, sinceOpen, keyVars, recVars>>
SrvRemove(i) ==
    /\ Len(wire) < MaxWire
    /\ srv[i] # NoRec
    /\ srv' = [srv EXCEPT ![i] = NoRec]
    /\ wire' = IF srvSub
               THEN Append(wire, [type |-> "delete",
                                  data |-> << <<"R", "O", "-">> \o IdStr(i) >>])
               ELSE wire
    /\ owed' = IF srvSub THEN Len(wire') ELSE owed
    /\ SrvSilent
    /\ UNCHANGED <<srvSub, messages, msgsNew, created, due, svcVars, envVars,
                   hookVars, sinceOpen, keyVars, recVars>>
\* The connection closes: what was in flight is lost with it, and the
\* consumer will need the answer to its next subscribe request.
ResyncClose ==
    /\ ws.st = "open"
    /\ onclose(Cur)
    /\ wire' = <<>>
    /\ srvSub' = FALSE
    /\ owed' = 1
    /\ UNCHANGED <<srv, messages, msgsNew, created, due, recVars>>
\* The transport of the backoff timer opens; attemptReconnect's .then
\* subscribes again.
ResyncOpen ==
    /\ onopen(Cur)
    /\ SrvHears(sentNow')
    /\ UNCHANGED <<srv, owed, messages, msgsNew, created, due, recVars>>
\* The oldest envelope in flight arrives.
ResyncReceive ==
    /\ wire # <<>>
    /\ msgsNew = {}
    /\ Receive("main:orders", Head(wire))
    /\ wire' = Tail(wire)
    /\ owed' = IF owed > 0 THEN owed - 1 ELSE 0
    /\ UNCHANGED <<srv, srvSub, due>>
\* The consumer renders; the server hears the subscribe effect.
ResyncRender ==
    /\ Render
    /\ SrvHears(sentNow')
    /\ UNCHANGED <<srv, owed, due>>
InitResync ==
    /\ KeyIdle
    /\ RecIdle
    /\ messages = NoMessages /\ msgsNew = {} /\ created = {} /\ due = <<>>
    /\ Subscribed
    /\ srv = [i \in CollIds |-> NoRec]
    /\ wire = <<SrvEnvelope(srv)>>
    /\ srvSub = TRUE
    /\ owed = 1
NextResync ==
    \/ \E r \in CollRecords : SrvPut(r)
    \/ \E i \in CollIds : SrvRemove(i)
    \/ ResyncClose
    \/ TimerFires
    \/ ResyncOpen
    \/ ResyncReceive
    \/ ResyncRender
SpecResync == InitResync /\ [][NextResync]_vars

\* C22: once the consumer has processed everything the server sent on the
\* open connection up to its last change (only later answers to subscribe
\* requests may still be in flight), the local orders are the server's
\* orders: the same ids with the same records -- also after a disconnect
\* during which the server's collection changed.
CaughtUp == connected /\ srvSub /\ owed = 0 /\ msgsNew = {}
C22_LocalMatchesServer ==
    CaughtUp => {orders[n] : n \in 1..Len(orders)} = SrvRecords(srv)

\* SpecReg: the service driven through its own interface.
InitReg == KeyIdle /\ RecIdle /\ NetInit /\ SyncIdle
NextReg ==
    \/ AppConnect
    \/ \E c \in Channels, l \in Listeners : Subscribe(c, l)
    \/ \E c \in Channels, l \in Listeners : Unsubscribe(c, l)
    \/ \E t \in Transports : OnOpen(t)
    \/ \E t \in Transports : OnError(t)
    \/ \E t \in Transports : OnClose(t)
    \/ TimerFires
    \/ \E t \in Transports, m \in Frames : handleMessage(t, m)
SpecReg == InitReg /\ [][NextReg]_vars

\* SpecClose: SpecReg with close().
NextClose == NextReg \/ AppClose
SpecClose == InitReg /\ [][NextClose]_vars

----------------------------------------------------------------------------
(* Claims about the reconciler and the key codec *)

Range(f) == {f[i] : i \in DOMAIN f}

\* A composite key as the data model defines it: a known 2-letter prefix, a
\* single hyphen, a run of decimal digits.
WellFormedKey(k) ==
    /\ Len(k) >= 4
    /\ SubSeq(k, 1, 2) \in DOMAIN typeMap
    /\ k[3] = "-"
    /\ \A i \in 4..Len(k) : IsDigit(k[i])
RECURSIVE DecimalValue(_)
DecimalValue(ds) ==
    IF ds = <<>> THEN 0
    ELSE 10 * DecimalValue(SubSeq(ds, 1, Len(ds) - 1)) + DigitVal(ds[Len(ds)])
WellFormedId(k) == DecimalValue(SubSeq(k, 4, Len(k)))

\* C1: after any sequence of update envelopes applied to the empty
\* collection, the collection holds exactly one record per id that occurred,
\* and it is the last record supplied for that id.
C1_LastWriteWins ==
    updOnly =>
        /\ \A n \in 1..Len(orders) : lastRec[orders[n].id] # NoRec
        /\ \A i \in Ids : lastRec[i] # NoRec =>
              /\ Cardinality({n \in 1..Len(orders) : orders[n].id = i}) = 1
              /\ [id |-> i, v |-> lastRec[i]] \in Range(orders)
C1_Witness ==
    /\ updOnly
    /\ Len(orders) = 2
    /\ lastRec[orders[1].id] = "b"
    /\ lastRec[orders[2].id] = "a"

\* C8: a delete envelope removes exactly the members whose id is the id
\* decoded from one of its keys; every other member stays, unchanged and in
\* the same relative order.
C8_DeleteExact ==
    lastEnv.type = "delete" =>
        LET ids == {getIdFromKey(k) : k \in Range(lastEnv.data)} \ {Null} IN
        /\ \A r \in Records :
              r \in Range(orders) <=> (r \in Range(prevOrders) /\ r.id \notin ids)
        /\ \A i, j \in 1..Len(orders) :
              i < j => FindIndex(prevOrders, orders[i].id)
                         < FindIndex(prevOrders, orders[j].id)
C8_Witness ==
    /\ lastEnv.type = "delete"
    /\ Len(prevOrders) = 3
    /\ Len(orders) = 2
    /\ orders = <<prevOrders[1], prevOrders[3]>>

\* C9: a malformed key in a delete envelope removes nothing: the result is
\* that of the same envelope without its malformed keys.
C9_MalformedKeyIsNoOp ==
    lastEnv.type = "delete" =>
        LET ids == {WellFormedId(k) :
                      k \in {x \in Range(lastEnv.data) : WellFormedKey(x)}}
        IN  orders = SelectSeq(prevOrders, LAMBDA o : o.id \notin ids)

\* C10: every string that is not a well-formed composite key decodes to the
\* invalid result (null).
C10_MalformedDecodesToNull ==
    (decoded.done /\ ~WellFormedKey(key)) =>
        (decoded.parsed = NullParse /\ decoded.id = Null)

\* C11: for each of the five entity types and every positive integer id,
\* decoding the key that createJiraKey made of (type, id) gives back that type
\* and that id.
C11_EncodeDecodeRoundTrip ==
    (decoded.done /\ enc.type \in EntityTypes /\ enc.id >= 1) =>
        /\ decoded.parsed.valid
        /\ decoded.parsed.type = enc.type
        /\ decoded.parsed.id = enc.id
        /\ decoded.id = enc.id
C11_Witness ==
    /\ decoded.done
    /\ enc.type = "repair_unit"
    /\ enc.id = 107
    /\ key = <<"R", "U", "-", "1", "0", "7">>
    /\ decoded.parsed.id = 107

\* C12: in every state reached from the empty collections by update and
\* delete envelopes, no two records of a collection have the same id.
UniqueIds(coll) ==
    \A i, j \in 1..Len(coll) : i # j => coll[i].id # coll[j].id
C12_UniqueIds == UniqueIds(orders) /\ UniqueIds(statuses)
C12_Witness ==
    /\ Len(orders) = MaxCollId
    /\ Len(statuses) = MaxCollId
    /\ orders[1].id = 2
    /\ statuses[1].id = 1
    /\ statuses[1].v = "b"

\* C13: an update record whose id exists replaces that record where it is,
\* whole, and every other record keeps its position and value; a record
\* whose id does not exist is appended at the end. For an envelope of several
\* records: the records that were there keep their positions, each holding
\* the last record supplied for its id if one was, and the new ids follow in
\* the order of their first occurrence in the envelope.
FirstAt(data, i) ==
    CHOOSE n \in 1..Len(data) :
        /\ data[n].id = i
        /\ \A m \in 1..(n - 1) : data[m].id # i
LastAt(data, i) ==
    CHOOSE n \in 1..Len(data) :
        /\ data[n].id = i
        /\ \A m \in (n + 1)..Len(data) : data[m].id # i
C13_ReplaceInPlaceOrAppend ==
    lastEnv.type = "update" =>
        LET data == lastEnv.data
            supplied == {data[n].id : n \in 1..Len(data)}
            old == {prevOrders[n].id : n \in 1..Len(prevOrders)}
            new == supplied \ old
            k == Len(prevOrders)
        IN  /\ Len(orders) = k + Cardinality(new)
            /\ \A n \in 1..k :
                  orders[n] = IF prevOrders[n].id \in supplied
                              THEN data[LastAt(data, prevOrders[n].id)]
                              ELSE prevOrders[n]
            /\ \A n \in (k + 1)..Len(orders) :
                  /\ orders[n].id \in new
                  /\ orders[n] = data[LastAt(data, orders[n].id)]
            /\ \A n, m \in (k + 1)..Len(orders) :
                  n < m => FirstAt(data, orders[n].id) < FirstAt(data, orders[m].id)
C13_Witness ==
    /\ lastEnv.type = "update"
    /\ Len(prevOrders) = 2
    /\ Len(lastEnv.data) = 2
    /\ lastEnv.data[1].id \notin {prevOrders[1].id, prevOrders[2].id}
    /\ lastEnv.data[2].id = prevOrders[1].id
    /\ lastEnv.data[2].v # prevOrders[1].v
    /\ orders = <<lastEnv.data[2], prevOrders[2], lastEnv.data[1]>>

----------------------------------------------------------------------------
(* Claims about the connection manager *)

\* The number of WebSocket objects that are connecting or open.
RECURSIVE CountIn(_, _)
CountIn(S, B) ==
    IF S = {} THEN 0
    ELSE LET x == CHOOSE y \in S : TRUE IN CopiesIn(x, B) + CountIn(S \ {x}, B)
InFlightOrOpen == {"connecting", "open"}
TransportCount ==
    (IF ws.st \in InFlightOrOpen THEN 1 ELSE 0)
      + CountIn({o \in BagToSet(orphans) : o.st \in InFlightOrOpen}, orphans)

\* A step that calls connect().
ConnectCalled == TimerFires \/ \E h \in Hooks : HookMount(h)
\* A step that dispatches a close event.
CloseEvent == \E t \in Transports : OnClose(t)

\* C2: when a reconnection attempt succeeds, one subscribe envelope is sent
\* that names every channel of the registry, each once.
C2_ResubscribeOnReconnect ==
    [][\A t \in Transports :
          (Sock(t).by = "timer" /\ OnOpen(t) /\ DOMAIN subscribers # {}) =>
              sentNow' = <<[type |-> "subscribe", channels |-> DOMAIN subscribers]>>
      ]_vars

\* C3, as claimed: every close event disconnects, clears the session
\* identifier and schedules a reconnection attempt, and nothing else
\* schedules one.
C3_EveryCloseSchedules ==
    [][/\ CloseEvent =>
            /\ connected' = FALSE
            /\ websocketId' = NoId
            /\ timers' = timers + 1
       /\ timers' > timers => CloseEvent
      ]_vars
\* C3, amended: every close event disconnects and clears the session
\* identifier; it schedules one reconnection attempt exactly when fewer than
\* maxReconnectAttempts were scheduled since the last open; nothing but a
\* close event schedules one.
C3_CloseSchedulesBelowCeiling ==
    [][/\ CloseEvent =>
            /\ connected' = FALSE
            /\ websocketId' = NoId
            /\ IF sinceOpen < 10 THEN timers' = timers + 1 ELSE timers' = timers
       /\ timers' > timers => CloseEvent
      ]_vars
C3_Witness ==
    /\ delayNow = 2000
    /\ timers = 1
    /\ ~connected
    /\ websocketId = NoId

\* C4: once ten reconnection attempts in a row have failed, no further one
\* is scheduled, and the service stays disconnected without a pending retry
\* until a hook calls connect().
Exhausted ==
    /\ sinceOpen = 10
    /\ timers = 0
    /\ ws.st # "connecting"
    /\ \A o \in BagToSet(orphans) : o.st # "connecting"
C4_NoEleventhAttempt ==
    [][/\ sinceOpen' <= 10
       /\ sinceOpen = 10 => timers' <= timers
       /\ (Exhausted /\ ~(\E h \in Hooks : HookMount(h))) =>
             (Exhausted' /\ ~connected /\ ~connected')
      ]_vars
C4_Witness ==
    /\ Exhausted
    /\ Quiet
    /\ TransportCount = 0
    /\ delayNow = 0

\* C5: the delay before the n-th reconnection attempt since the last open
\* is 1000 * 2^(n-1) ms: 1000, 2000, 4000, 8000, 16000 for n = 1..5.
C5_BackoffDelays ==
    [][timers' > timers =>
          /\ delayNow' = 1000 * 2^(sinceOpen' - 1)
          /\ sinceOpen' <= 5 =>
                delayNow' = <<1000, 2000, 4000, 8000, 16000>>[sinceOpen']
      ]_vars
C5_Witness == delayNow = 16000 /\ sinceOpen = 5

\* C6: connect() called while a transport is connecting or open creates no
\* second transport.
C6_NoSecondTransport ==
    [][(TransportCount >= 1 /\ ConnectCalled) => UNCHANGED <<ws, orphans>>]_vars

\* C7: at most one transport is connecting or open.
C7_AtMostOneTransport == TransportCount <= 1

\* The model stays within its own frame.
ModelSane ==
    /\ reconnectAttempts \in 0..maxReconnectAttempts
    /\ sinceOpen = reconnectAttempts
    /\ reconnectAttempts > 0 => ~connected
    /\ timers + BagCardinality(orphans) + (IF ws.st \in Live THEN 1 ELSE 0)
         <= MaxHooks
    /\ crashed => \A h \in Hooks : hook[h].phase # "mounted"

----------------------------------------------------------------------------
(* Claims about the subscription registry and dispatch *)

Times(seq, x) == Cardinality({n \in 1..Len(seq) : seq[n] = x})
Registered(subs, c, l) == c \in DOMAIN subs /\ SetHas(subs[c], l)
ConnectionOpen == ws.st = "open" /\ connected

\* C14: subscribe(channel, listener) emits a subscribe envelope only when the
\* registry has no listener for the channel at the call (and then, on an open
\* connection, exactly the one naming that channel); a further listener
\* emits nothing; the same (channel, callback) registered twice is registered
\* once.
C14_SubscribeEmitsForFirstListener ==
    [][\A c \in Channels, l \in Listeners : Subscribe(c, l) =>
          /\ c \in DOMAIN subscribers => sentNow' = <<>>
          /\ sentNow' # <<>> =>
                /\ c \notin DOMAIN subscribers
                /\ sentNow' = <<[type |-> "subscribe", channels |-> {c}]>>
          /\ (c \notin DOMAIN subscribers /\ ConnectionOpen) => sentNow' # <<>>
          /\ Times(subscribers'[c], l) = 1
          /\ \A k \in Listeners \ {l} :
                Times(subscribers'[c], k) =
                    IF Registered(subscribers, c, k) THEN 1 ELSE 0
      ]_vars
C14_Witness ==
    /\ ConnectionOpen
    /\ sentNow = <<>>
    /\ frameNow = "none"
    /\ DOMAIN subscribers = {"main:orders"}
    /\ subscribers["main:orders"] = <<<<0, "g">>, <<0, "f">>>>

\* C15: unsubscribe removes the one (channel, listener) registration: the
\* other listeners of the channel stay, in their order, the other channels
\* are untouched, the channel's entry goes exactly when no listener is left,
\* and nothing is sent.
C15_UnsubscribeRemovesOne ==
    [][\A c \in Channels, l \in Listeners : Unsubscribe(c, l) =>
          /\ sentNow' = <<>>
          /\ \A d \in Channels \ {c} :
                /\ d \in DOMAIN subscribers' <=> d \in DOMAIN subscribers
                /\ d \in DOMAIN subscribers => subscribers'[d] = subscribers[d]
          /\ ~Registered(subscribers', c, l)
          /\ \A k \in Listeners \ {l} :
                Registered(subscribers', c, k) <=> Registered(subscribers, c, k)
          /\ c \in DOMAIN subscribers' <=>
                \E k \in Listeners \ {l} : Registered(subscribers, c, k)
          /\ c \in DOMAIN subscribers' =>
                subscribers'[c] = SelectSeq(subscribers[c], LAMBDA k : k # l)
      ]_vars
C15_Witness ==
    /\ DOMAIN subscribers = {"main:status"}
    /\ subscribers["main:status"] = <<<<0, "g">>>>
    /\ timers = 1
    /\ reconnectAttempts = 2

\* C16: a frame that carries a channel invokes every listener registered for
\* that channel exactly once and no other listener; a frame for a channel
\* without an entry invokes nothing and raises no error.
C16_DispatchToChannelListeners ==
    [][\A t \in Transports, m \in Frames :
          (m.kind = "channel" /\ handleMessage(t, m)) =>
              /\ \A l \in Listeners :
                    Times(calledNow', l) =
                        IF Registered(subscribers, m.channel, l) THEN 1 ELSE 0
              /\ m.channel \notin DOMAIN subscribers => calledNow' = <<>>
              /\ ~threwNow'
      ]_vars
C16_Witness ==
    /\ frameNow = "channel"
    /\ calledNow = <<<<0, "f">>, <<0, "g">>>>
    /\ DOMAIN subscribers = Channels
    /\ subscribers["main:status"] = <<<<0, "g">>>>

\* C17: a send() made while the connection is not open does not throw and
\* transmits nothing, and what it was given is not transmitted later: an open
\* event transmits at most the subscribe envelope of the re-subscription.
C17_SendWhileNotOpenIsDropped ==
    [][/\ ~threwNow'
       /\ sentNow' # <<>> => (ws'.st = "open" /\ connected')
       /\ \A t \in Transports : OnOpen(t) =>
             \A n \in 1..Len(sentNow') : sentNow'[n].type = "subscribe"
      ]_vars

\* C18: a frame that is not valid JSON is dropped: it invokes no listener
\* (no consumer's state changes), the transport it came on stays open, and
\* the connection flag, the session identifier, the attempt counter, the
\* registry and the collections are unchanged, so that the frames after it
\* are handled as they would have been.
C18_MalformedFrameDropped ==
    [][\A t \in Transports :
          handleMessage(t, [kind |-> "malformed"]) =>
              /\ calledNow' = <<>>
              /\ ~threwNow'
              /\ UNCHANGED <<ws, orphans, timers, connected, websocketId,
                             reconnectAttempts, subscribers, hook, crashed,
                             orders, statuses>>
      ]_vars
C18_Witness ==
    /\ frameNow = "malformed"
    /\ ConnectionOpen
    /\ websocketId # NoId
    /\ DOMAIN subscribers = Channels
    /\ \E h \in Hooks : hook[h].phase = "mounted" /\ ~hook[h].dirty

\* C20: the connected flag a consumer of useWebSocket sees reflects the
\* connection: it is false after a transport close or error and while the
\* reconnection attempts are exhausted, and true only while the service is
\* connected again.
C20_ObservedFlagFollowsConnection ==
    \A h \in Hooks :
        (hook[h].phase = "mounted" /\ hook[h].connected) => connected

----------------------------------------------------------------------------
(* Claims about a consumer's collections *)

Other(c) == CHOOSE d \in Channels : d # c
C21_CollectionsIndependent ==
    [][/\ \A c \in Channels : \A env \in SyncEnvs(c) :
             SyncReceive(c, env) =>
                 /\ UNCHANGED <<orders, statuses>>
                 /\ messages'[Other(c)] = messages[Other(c)]
       /\ SyncRender =>
             /\ "main:orders" \notin msgsNew => orders' = orders
             /\ "main:status" \notin msgsNew => statuses' = statuses
      ]_vars
C21_Witness ==
    /\ msgsNew = {}
    /\ messages["main:orders"].type = "delete"
    /\ messages["main:status"].type = "update"
    /\ Len(orders) = 1
    /\ statuses = <<[id |-> 1, v |-> "a"]>>
    /\ orders[1].id = 1

\* C23: every open event of a transport sets connected and resets the
\* reconnection counter to zero, so that the next close schedules attempt 1
\* after 1000 ms with all maxReconnectAttempts left; the caller of connect()
\* is told at the open event (the hook's setConnected(true), the timer's
\* re-subscription) while the session identifier is as it was; the session
\* identifier is set only in a step that handles a 'connected' frame.
OpenedNow(t) == Sock(t).st = "connecting" /\ Becomes(t, Settled("open"))
ClosedNow(t) == Sock(t).st \in {"open", "failing"} /\ Closes(t) /\ ~connected'
C23_OpenResetsAndSignals ==
    [][/\ \A t \in Transports :
            OpenedNow(t) =>
              /\ connected'
              /\ reconnectAttempts' = 0
              /\ maxReconnectAttempts - reconnectAttempts' = 10
              /\ websocketId' = websocketId
              /\ Sock(t).by = "hook" /\ hook[Sock(t).h].phase = "mounted"
                   => hook'[Sock(t).h].connected
              /\ Sock(t).by = "timer" /\ DOMAIN subscribers # {} /\ ws'.st = "open"
                   => sentNow' = <<[type |-> "subscribe",
                                    channels |-> DOMAIN subscribers]>>
       /\ \A t \in Transports :
            ClosedNow(t) /\ reconnectAttempts = 0 =>
              /\ reconnectAttempts' = 1
              /\ timers' = timers + 1
              /\ delayNow' = 1000
       /\ websocketId' \notin {websocketId, NoId} => frameNow' = "connected"]_vars
\* A reconnection just opened its transport and re-subscribed, the hook was
\* told of the first open, and no 'connected' frame has arrived.
C23_Witness ==
    /\ ws.st = "open" /\ connected /\ reconnectAttempts = 0
    /\ websocketId = NoId
    /\ hook[1].connected
    /\ sentNow # <<>> /\ sentNow[1].type = "subscribe"
    /\ sinceOpen = 0 /\ timers = 0 /\ frameNow = "none"
    /\ Cardinality(sentNow[1].channels) = 2

\* C24: for every orders collection and every update or delete envelope,
\* processing the envelope a second time right after the first leaves the
\* collection as the first left it: the same records in the same order.
RepeatedNow ==
    /\ lastEnv # NoEnv
    /\ DOMAIN lastEnv' = {"type", "data", "times"}
    /\ DOMAIN lastEnv = {"type", "data"}
C24_ReconcileIdempotent == [][RepeatedNow => orders' = orders]_vars
\* An update envelope that replaced a record and appended another, and a
\* delete envelope that removed a record, have been processed twice.
C24_WitnessUpdate ==
    /\ lastEnv.type = "update" /\ Len(lastEnv.data) = 2
    /\ "times" \in DOMAIN lastEnv
    /\ prevOrders = orders
    /\ orders = <<[id |-> 2, v |-> "a"], [id |-> 1, v |-> "b"], [id |-> 3, v |-> "b"]>>
    /\ lastEnv.data = <<[id |-> 3, v |-> "b"], [id |-> 1, v |-> "b"]>>
C24_Witness ==
    \/ C24_WitnessUpdate
    \/ /\ lastEnv.type = "delete" /\ prevOrders = orders
       /\ "times" \in DOMAIN lastEnv
       /\ lastEnv.data = << <<"R", "O", "-", "1">> >>
       /\ orders = <<[id |-> 2, v |-> "a"]>>

\* C25: no envelope is lost between the listener and the orders effect.
\* Whenever the consumer has rendered after the last envelope arrived, the
\* orders collection is what processing every envelope handed to the
\* main:orders listener, in arrival order, makes of it -- also when two of
\* them arrived between two renders.
C25_NoEnvelopeLost == (msgsNew = {} /\ ~crashed) => orders = due

\* C26: between two tasks, this.connected is true exactly when the
\* transport this.ws refers to is open, whatever events the transports of
\* earlier connect() calls have had.
C26_FlagIsCurrentTransportOpen == Quiet => (connected <=> ws.st = "open")

\* C27: a mounted consumer whose own connect() failed gets its channels
\* registered once a reconnection has succeeded. Stated on the states in
\* which the client has nothing left to run (the transport of the consumer's
\* connect() is gone, a reconnection has opened this.ws, no timer is pending
\* and no render is due): there the registry holds the consumer's listener
\* for each of its channels. Nothing but a new event from the network leads
\* out of such a state, so what is missing in it is never supplied.
InitialConnectFailed(h) ==
    /\ hook[h].phase = "mounted"
    /\ ~hook[h].connected
    /\ \A t \in Transports : ~(Sock(t).by = "hook" /\ Sock(t).h = h)
ClientAtRest ==
    /\ Quiet /\ ~crashed
    /\ timers = 0
    /\ orphans = EmptyBag
    /\ \A h \in Hooks : ~hook[h].dirty
C27_FailedConsumerGetsRegistered ==
    \A h \in Hooks :
        (InitialConnectFailed(h) /\ ClientAtRest /\ connected /\ ws.st = "open")
            => \A n \in 1..Len(HookChannels) :
                   /\ HookChannels[n] \in DOMAIN subscribers
                   /\ SetHas(subscribers[HookChannels[n]], Callback(h, HookChannels[n]))

\* C28: after close() the service stays torn down until the application
\* calls connect() again. While this.ws is null, connected is false, the
\* session identifier is null and no reconnection is pending, a step that
\* is no call of connect(), subscribe() or unsubscribe() leaves all that as it is, opens no
\* transport, schedules no reconnection and leaves the registry as it is.
TornDown ==
    /\ ws = NoSock /\ ~connected /\ websocketId = NoId
    /\ timers = 0
C28_StaysTornDownAfterClose ==
    [][(/\ TornDown
        /\ ~AppConnect
        /\ ~(\E c \in Channels, l \in Listeners : Subscribe(c, l))
        /\ ~(\E c \in Channels, l \in Listeners : Unsubscribe(c, l)))
          => /\ TornDown'
             /\ subscribers' = subscribers
             /\ \A t \in BagToSet(orphans') : t.st # "connecting"]_vars

====
